---------------------------- MODULE Spec2Model ----------------------------
(***************************************************************************)
(* A model of the DSMR v10 telegram parser of src/src/main.rs: parse,      *)
(* parse_v10, get_month_as_uint and get_event_log_message.                 *)
(*                                                                         *)
(* A line of input is the sequence of its bytes, so that the byte indexing *)
(* of the source (bytes[0], bytes[2], bytes[4], bytes[7], rfind(')'),      *)
(* find('*'), the date slices) is modelled position by position.  Rust     *)
(* indexes from 0, TLA+ sequences from 1: bytes[k] of the source is        *)
(* Byte(l, k) here.                                                        *)
(*                                                                         *)
(* An f64 is modelled as the binary number it is: 230.5 is 461 * 2^-1.     *)
(***************************************************************************)
EXTENDS Integers, Sequences, FiniteSets, Bags, TLC

VARIABLES
    pc,              \* "parse": before parse(); "loop": inside the for loop of parse_v10; "done": returned or panicked
    result,          \* what parse() gave back: [kind |-> "none" | "Ok" | "Err" | "Panic", ...]
    dsmr,            \* main.rs:90   the output list
    electricity,     \* main.rs:91   the electricity buffer
    telegram_date,   \* main.rs:101
    dates,           \* main.rs:102  partial list of <<event id, timestamp>>
    messages,        \* main.rs:103  partial list of <<event id, hex text>>
    severities,      \* main.rs:104  partial list of <<event id, severity>>
    seen_info_type,  \* main.rs:106
    has_electricity, \* main.rs:107
    has_telegram_date, \* main.rs:108
    \* history of the input consumed so far (not read by the parser)
    open,            \* a start marker was dispatched and no boundary line since
    recv,            \* census of the lines dispatched since the last boundary line
    ends,            \* number of end-marker lines dispatched
    closed,          \* per end marker dispatched: the census of the lines it closed
    wf,              \* every line dispatched so far keeps the input well-formed
    orphan,          \* the last line dispatched was an end marker that no start marker preceded
    \* the input not yet consumed
    ahead            \* main.rs:87   what is fixed of the bytes the lines iterator has not yielded yet

prog  == <<pc, result, dsmr, electricity, telegram_date, dates, messages,
           severities, seen_info_type, has_electricity, has_telegram_date>>
hist  == <<open, recv, ends, closed, wf, orphan>>
vars  == <<prog, hist, ahead>>

(***************************************************************************)
(* Bounds of the model.                                                    *)
(***************************************************************************)
\* the telegrams of an input
MaxTelegrams == 2
\* the event-log lines of each kind within one telegram of an input
MaxEvents == 2
\* event-log lines occur only in the first MaxEventTelegrams telegrams of an input
MaxEventTelegrams == 1

(***************************************************************************)
(* Bytes and slices.  A byte below 128 is the one-character string of its  *)
(* ASCII character; a byte of 128 and more is the string "<hh>" of its two *)
(* lower-case hex digits, "<c3>" for 0xc3.                                 *)
(***************************************************************************)
NoByte == "<none>"

\* bytes[k] of the source (0-based); NoByte where Rust's index panics
Byte(l, k) == IF k + 1 <= Len(l) THEN l[k + 1] ELSE NoByte

\* &s[a..b] of the source (0-based, b exclusive)
Slice(s, a, b) == SubSeq(s, a + 1, b)

HexDigits == <<"0", "1", "2", "3", "4", "5", "6", "7",
               "8", "9", "a", "b", "c", "d", "e", "f">>

\* the byte of value n, for n of 128 and more
HighByte ==
    [n \in 128..255 |->
        "<" \o HexDigits[(n \div 16) + 1] \o HexDigits[(n % 16) + 1] \o ">"]

HighBytes == {HighByte[n] : n \in 128..255}

HighCodes == [b \in HighBytes |-> CHOOSE n \in 128..255 : HighByte[n] = b]

\* the value of a byte of 128 and more, 0 for every ASCII byte
HighCode(b) == IF b \in HighBytes THEN HighCodes[b] ELSE 0

\* a continuation byte of UTF-8, 0x80 to 0xbf
ContinuationBytes == {HighByte[n] : n \in 128..191}

IsContinuation(b) == b \in ContinuationBytes

\* utf8_char_width: the bytes of the character that begins with byte b,
\* 0 when no character begins with it
Utf8CharWidth(b) ==
    CASE HighCode(b) = 0 -> 1
      [] HighCode(b) \in 194..223 -> 2
      [] HighCode(b) \in 224..239 -> 3
      [] HighCode(b) \in 240..244 -> 4
      [] OTHER -> 0

\* byte second may follow the first byte first of a character of two and
\* more bytes
Utf8SecondOk(first, second) ==
    CASE HighCode(first) = 224 -> HighCode(second) \in 160..191
      [] HighCode(first) = 237 -> HighCode(second) \in 128..159
      [] HighCode(first) = 240 -> HighCode(second) \in 144..191
      [] HighCode(first) = 244 -> HighCode(second) \in 128..143
      [] OTHER -> HighCode(second) \in 128..191

\* byte k of the character of bs[1] is in bs and is one that may stand there
Utf8ByteOk(bs, k) ==
    /\ k <= Len(bs)
    /\ IF k = 2 THEN Utf8SecondOk(bs[1], bs[2]) ELSE IsContinuation(bs[k])

\* Utf8Chunks: what stands at the head of the bytes bs, which are not empty:
\* one character of len bytes (valid), or an invalid sequence of len bytes,
\* which is the first byte and the bytes behind it that may follow it
Utf8Head(bs) ==
    LET w    == Utf8CharWidth(bs[1])
        good == CHOOSE j \in 1..4 :
                    /\ j <= w \/ j = 1
                    /\ \A k \in 2..j : Utf8ByteOk(bs, k)
                    /\ j < w => ~Utf8ByteOk(bs, j + 1)
    IN [valid |-> w > 0 /\ good = w, len |-> good]

\* every byte of bs is an ASCII byte
IsAscii(bs) == bs \in Seq(STRING \ HighBytes)

\* the bytes bs are characters from end to end
RECURSIVE Utf8Chars(_)
Utf8Chars(bs) ==
    IF bs = <<>> THEN TRUE
    ELSE /\ Utf8Head(bs).valid
         /\ Utf8Chars(SubSeq(bs, Utf8Head(bs).len + 1, Len(bs)))

\* str::from_utf8 is Ok: ASCII bytes are characters, other bytes are
\* checked character by character
Utf8Ok(bs) == IF IsAscii(bs) THEN TRUE ELSE Utf8Chars(bs)

\* U+FFFD, the replacement character
Replacement == <<"<ef>", "<bf>", "<bd>">>

\* String::from_utf8_lossy: every invalid sequence becomes U+FFFD
RECURSIVE Utf8Lossy(_)
Utf8Lossy(bs) ==
    IF bs = <<>> THEN <<>>
    ELSE (IF Utf8Head(bs).valid THEN SubSeq(bs, 1, Utf8Head(bs).len) ELSE Replacement)
             \o Utf8Lossy(SubSeq(bs, Utf8Head(bs).len + 1, Len(bs)))

\* String::from_utf8_lossy: valid bytes are borrowed as they are, and in
\* other bytes every invalid sequence is replaced
from_utf8_lossy(bs) == IF IsAscii(bs) THEN bs ELSE Utf8Lossy(bs)

\* str::is_char_boundary(i): i is the start or the end of s, or the byte at
\* i begins a character
IsCharBoundary(s, i) ==
    \/ i = 0
    \/ i = Len(s)
    \/ 0 < i /\ i < Len(s) /\ ~IsContinuation(s[i + 1])

\* &s[a..b] of a str does not panic: the range is in s and both its ends are
\* character boundaries
SliceOk(s, a, b) ==
    /\ a <= b /\ b <= Len(s)
    /\ IsCharBoundary(s, a) /\ IsCharBoundary(s, b)

\* line.rfind(c): the 0-based index of the last c, -1 for None
RFind(l, c) ==
    LET hits == {i \in 1..Len(l) : l[i] = c}
    IN IF hits = {} THEN -1 ELSE (CHOOSE i \in hits : \A j \in hits : j <= i) - 1

\* line.find(c): the 0-based index of the first c, -1 for None
Find(l, c) ==
    LET hits == {i \in 1..Len(l) : l[i] = c}
    IN IF hits = {} THEN -1 ELSE (CHOOSE i \in hits : \A j \in hits : i <= j) - 1

Digits == <<"0", "1", "2", "3", "4", "5", "6", "7", "8", "9">>

IsDigit(c) == \E i \in 1..10 : Digits[i] = c

\* char::to_digit(10): the digit's value, -1 for None
to_digit(c) == IF IsDigit(c) THEN (CHOOSE i \in 1..10 : Digits[i] = c) - 1 ELSE -1

RECURSIVE DigitsValue(_)
DigitsValue(s) ==
    IF s = <<>> THEN 0
    ELSE 10 * DigitsValue(SubSeq(s, 1, Len(s) - 1)) + to_digit(s[Len(s)])

AllDigits(s) == s # <<>> /\ \A i \in 1..Len(s) : IsDigit(s[i])

\* str::parse::<u8>() / parse::<u16>() of a slice of at most two bytes:
\* decimal digits with an optional leading "+"; -1 for Err
ParseUInt(s) ==
    IF AllDigits(s) THEN DigitsValue(s)
    ELSE IF Len(s) >= 2 /\ s[1] = "+" /\ AllDigits(Tail(s)) THEN DigitsValue(Tail(s))
    ELSE -1

(***************************************************************************)
(* f64.  A finite value of type f64 is the number (-1)^neg * m * 2^exp,    *)
(* where bits holds the binary digits of the integer m, the highest first. *)
(* m is odd, so that every value has one record; zero has no bit and       *)
(* exponent 0, and keeps its sign.  230.5 is 461 / 2: the bits 111001101   *)
(* with exponent -1.                                                       *)
(***************************************************************************)
F64Num(neg, bits, exp) == [kind |-> "num", neg |-> neg, bits |-> bits, exp |-> exp]
F64Zero(neg)           == F64Num(neg, <<>>, 0)
F64Inf(neg)            == [kind |-> "inf", neg |-> neg, bits |-> <<>>, exp |-> 0]
F64NaN(neg)            == [kind |-> "nan", neg |-> neg, bits |-> <<>>, exp |-> 0]

\* Err(ParseFloatError)
NoValue == [kind |-> "Err", neg |-> FALSE, bits |-> <<>>, exp |-> 0]

\* the mantissa of an f64 has this many binary digits
F64MantissaBits == 53
\* the lowest binary digit of the least f64 above zero is that of 2^-1074
F64MinExp2 == -1074
\* every finite f64 is below 2^1024
F64MaxExp2 == 1024
\* a number of 10^309 and more is beyond f64::MAX, 1.7976931348623157e308
F64MaxExp10 == 308
\* a number below 10^-324 is nearer to zero than to the least f64 above
\* zero, 4.9e-324
F64ZeroExp10 == -324
\* the digits of an exponent are no longer counted once the exponent has
\* reached this value
ExpSaturation == 65536

\* Natural numbers of any size, for the rounding: a number is the sequence
\* of its digits to the base LimbBase, the lowest first and the highest not
\* zero; zero is the empty sequence.
LimbBits == 15
LimbBase == 32768

\* a without the zeros at its high end
BigTrim(a) ==
    LET nz == {i \in 1..Len(a) : a[i] # 0}
    IN IF nz = {} THEN <<>>
       ELSE SubSeq(a, 1, CHOOSE i \in nz : \A j \in nz : j <= i)

\* For raw, entries below LimbBase^2 that stand for the number
\* raw[1] + raw[2] * LimbBase + ..: the same number with entries below
\* 2 * LimbBase, the high part of each entry moved to the next one.
BigSplit(raw) ==
    [i \in 1..(Len(raw) + 1) |->
        (IF i <= Len(raw) THEN raw[i] % LimbBase ELSE 0)
            + (IF i > 1 THEN raw[i - 1] \div LimbBase ELSE 0)]

\* a carry of one arrives at entry i of t, whose entries are below
\* 2 * LimbBase: some entry below i overflows and every entry between the two
\* passes a carry on
CarryInto(t, i) ==
    \E j \in 1..(i - 1) :
        /\ t[j] >= LimbBase
        /\ \A m \in (j + 1)..(i - 1) : t[m] >= LimbBase - 1

\* the digits of the number that t stands for
BigRipple(t) ==
    [i \in 1..(Len(t) + 1) |->
        ((IF i <= Len(t) THEN t[i] ELSE 0) + (IF CarryInto(t, i) THEN 1 ELSE 0))
            % LimbBase]

\* the number that raw stands for
BigCarry(raw) == BigTrim(BigRipple(BigSplit(raw)))

\* a * k, for k up to LimbBase
BigMulSmall(a, k) == BigCarry([i \in 1..Len(a) |-> a[i] * k])

\* a + b
BigAdd(a, b) ==
    BigCarry([i \in 1..(IF Len(a) < Len(b) THEN Len(b) ELSE Len(a)) |->
                 (IF i <= Len(a) THEN a[i] ELSE 0) + (IF i <= Len(b) THEN b[i] ELSE 0)])

\* a borrow of one arrives at entry i of the differences d
BorrowInto(d, i) ==
    \E j \in 1..(i - 1) :
        /\ d[j] < 0
        /\ \A m \in (j + 1)..(i - 1) : d[m] <= 0

\* the number that the differences d of the digits of two numbers stand for
BigBorrow(d) ==
    BigTrim([i \in 1..Len(d) |->
                (d[i] - (IF BorrowInto(d, i) THEN 1 ELSE 0) + LimbBase) % LimbBase])

\* a - b, for a of at least b
BigSub(a, b) ==
    BigBorrow([i \in 1..Len(a) |-> a[i] - (IF i <= Len(b) THEN b[i] ELSE 0)])

\* a < b
BigLess(a, b) ==
    IF Len(a) # Len(b) THEN Len(a) < Len(b)
    ELSE \E i \in 1..Len(a) :
             /\ a[i] < b[i]
             /\ \A j \in (i + 1)..Len(a) : a[j] = b[j]

\* a * 2^k
BigShl(a, k) ==
    IF a = <<>> THEN <<>>
    ELSE [i \in 1..(k \div LimbBits) |-> 0] \o BigMulSmall(a, 2 ^ (k % LimbBits))

\* the number of binary digits of a
BigBitLen(a) ==
    IF a = <<>> THEN 0
    ELSE (Len(a) - 1) * LimbBits
             + (CHOOSE n \in 1..LimbBits :
                    2 ^ (n - 1) <= a[Len(a)] /\ a[Len(a)] < 2 ^ n)

RECURSIVE BigTimesPow10(_, _)
\* a * 10^q
BigTimesPow10(a, q) ==
    IF a = <<>> \/ q <= 0 THEN a
    ELSE IF q <= 4 THEN BigMulSmall(a, 10 ^ q)
    ELSE BigTimesPow10(BigTimesPow10(a, q \div 2), q - (q \div 2))

RECURSIVE BigFromDigits(_)
\* the number of decimal digits ds
BigFromDigits(ds) ==
    IF Len(ds) <= 4 THEN BigTrim(<<DigitsValue(ds)>>)
    ELSE BigAdd(BigTimesPow10(BigFromDigits(SubSeq(ds, 1, Len(ds) \div 2)),
                              Len(ds) - (Len(ds) \div 2)),
                BigFromDigits(SubSeq(ds, (Len(ds) \div 2) + 1, Len(ds))))

\* the binary digits of the digits 0 to 7
OctalBits == <<<<0, 0, 0>>, <<0, 0, 1>>, <<0, 1, 0>>, <<0, 1, 1>>,
               <<1, 0, 0>>, <<1, 0, 1>>, <<1, 1, 0>>, <<1, 1, 1>>>>

\* how many times t is in n, for n below 8 * t
OctalDigit(n, t) == Cardinality({g \in 1..7 : ~BigLess(n, BigMulSmall(t, g))})

RECURSIVE BigDiv(_, _, _, _)
\* n divided by d, for n below d * 8^(i+1): the binary digits of the digits
\* i down to 0 of the quotient to the base 8 are appended to bits, rem is the
\* remainder
BigDiv(n, d, i, bits) ==
    IF i < 0 THEN [bits |-> bits, rem |-> n]
    ELSE BigDiv(BigSub(n, BigMulSmall(BigShl(d, 3 * i), OctalDigit(n, BigShl(d, 3 * i)))),
                d, i - 1,
                bits \o OctalBits[OctalDigit(n, BigShl(d, 3 * i)) + 1])

\* the binary digits of the number of bits, plus one
BitsSucc(bits) ==
    LET zeros == {i \in 1..Len(bits) : bits[i] = 0}
        last  == CHOOSE i \in zeros : \A j \in zeros : j <= i
    IN IF zeros = {} THEN <<1>> \o [i \in 1..Len(bits) |-> 0]
       ELSE [i \in 1..Len(bits) |->
                IF i < last THEN bits[i] ELSE IF i = last THEN 1 ELSE 0]

\* The f64 of m * 2^ue, where bits are binary digits of m: an infinity from
\* 2^F64MaxExp2 on.
F64Finite(neg, bits, ue) ==
    LET ones  == {i \in 1..Len(bits) : bits[i] = 1}
        first == CHOOSE i \in ones : \A j \in ones : i <= j
        last  == CHOOSE i \in ones : \A j \in ones : j <= i
    IN IF ones = {} THEN F64Zero(neg)
       ELSE IF Len(bits) - first + 1 + ue > F64MaxExp2 THEN F64Inf(neg)
       ELSE F64Num(neg, SubSeq(bits, first, last), ue + Len(bits) - last)

\* The quotient qr of num by den is rounded to the nearest integer, and to
\* the even one of two that are as near.
F64Nearest(neg, qr, den, ue) ==
    F64Finite(neg,
              IF \/ BigLess(den, BigMulSmall(qr.rem, 2))
                 \/ /\ den = BigMulSmall(qr.rem, 2)
                    /\ qr.bits[Len(qr.bits)] = 1
              THEN BitsSucc(qr.bits)
              ELSE qr.bits,
              ue)

\* n / d in units of 2^ue, which is less than 2^F64MantissaBits
F64Quotient(neg, n, d, ue) ==
    F64Nearest(neg,
               BigDiv(BigShl(n, IF ue < 0 THEN 0 - ue ELSE 0),
                      BigShl(d, IF ue > 0 THEN ue ELSE 0),
                      F64MantissaBits \div 3, <<>>),
               BigShl(d, IF ue > 0 THEN ue ELSE 0),
               ue)

\* n / d is at least 2^e2 and less than 2^(e2+1): the lowest binary digit of
\* its f64 is that of 2^(e2-52), or of 2^F64MinExp2 when the f64 is subnormal
F64Unit(neg, n, d, e2) ==
    F64Quotient(neg, n, d,
                IF e2 - (F64MantissaBits - 1) < F64MinExp2 THEN F64MinExp2
                ELSE e2 - (F64MantissaBits - 1))

\* n has bl more binary digits than d: n / d is between 2^(bl-1) and 2^(bl+1)
F64Scaled(neg, n, d, bl) ==
    F64Unit(neg, n, d,
            IF BigLess(BigShl(n, IF bl < 0 THEN 0 - bl ELSE 0),
                       BigShl(d, IF bl > 0 THEN bl ELSE 0))
            THEN bl - 1 ELSE bl)

\* the f64 nearest to n / d, for n and d above zero
F64Ratio(neg, n, d) == F64Scaled(neg, n, d, BigBitLen(n) - BigBitLen(d))

\* the f64 nearest to the number of decimal digits sig times 10^q
F64Decimal(neg, sig, q) ==
    F64Ratio(neg,
             BigTimesPow10(BigFromDigits(sig), q),
             BigTimesPow10(<<1>>, 0 - q))

UpperCase == <<"A", "B", "C", "D", "E", "F", "G", "H", "I", "J", "K", "L", "M",
               "N", "O", "P", "Q", "R", "S", "T", "U", "V", "W", "X", "Y", "Z">>
LowerCase == <<"a", "b", "c", "d", "e", "f", "g", "h", "i", "j", "k", "l", "m",
               "n", "o", "p", "q", "r", "s", "t", "u", "v", "w", "x", "y", "z">>

\* u8::to_ascii_lowercase on every byte
ToLower(s) ==
    [i \in 1..Len(s) |->
        IF \E k \in 1..26 : UpperCase[k] = s[i]
        THEN LowerCase[CHOOSE k \in 1..26 : UpperCase[k] = s[i]]
        ELSE s[i]]

\* the digits of d without the zeros in front
RECURSIVE StripLeadingZeros(_)
StripLeadingZeros(d) ==
    IF d # <<>> /\ d[1] = "0" THEN StripLeadingZeros(Tail(d)) ELSE d

\* the digits of d without the zeros behind
RECURSIVE StripTrailingZeros(_)
StripTrailingZeros(d) ==
    IF d # <<>> /\ d[Len(d)] = "0"
    THEN StripTrailingZeros(SubSeq(d, 1, Len(d) - 1))
    ELSE d

\* the index of the first "e" or "E" of body (1-based), 0 when it has none
ExpPos(body) ==
    LET hits == {i \in 1..Len(body) : body[i] \in {"e", "E"}}
    IN IF hits = {} THEN 0 ELSE CHOOSE i \in hits : \A j \in hits : i <= j

RECURSIVE ExpMagnitude(_, _)
\* the value of the exponent digits edig behind the value acc of the digits
\* in front of them: a digit counts while the value is below ExpSaturation
ExpMagnitude(acc, edig) ==
    IF edig = <<>> THEN acc
    ELSE ExpMagnitude(IF acc < ExpSaturation THEN 10 * acc + to_digit(edig[1]) ELSE acc,
                      Tail(edig))

\* The description of a text from the digits ip before and fp behind the "."
\* of its mantissa and the digits edig of its exponent.  ok: the mantissa has
\* a digit and nothing but digits around its ".", and an exponent has a digit
\* and nothing but digits behind its sign; sig: the significant digits of the
\* mantissa; exp: the power of ten of the first of them.
F64Fields(neg, word, hasexp, ip, fp, edig, eneg) ==
    [neg  |-> neg,
     word |-> word,
     ok   |-> /\ ip # <<>> \/ fp # <<>>
              /\ \A i \in 1..Len(ip) : IsDigit(ip[i])
              /\ \A i \in 1..Len(fp) : IsDigit(fp[i])
              /\ hasexp => AllDigits(edig),
     sig  |-> StripTrailingZeros(StripLeadingZeros(ip \o fp)),
     exp  |-> Len(ip) - (Len(ip \o fp) - Len(StripLeadingZeros(ip \o fp))) - 1
                  + (IF ~AllDigits(edig) THEN 0
                     ELSE IF eneg THEN 0 - ExpMagnitude(0, edig)
                     ELSE ExpMagnitude(0, edig))]

\* the mantissa mant is split at its first ".", the exponent text etxt behind
\* its optional sign
F64Mantissa(neg, word, hasexp, mant, etxt) ==
    F64Fields(neg, word, hasexp,
              IF Find(mant, ".") < 0 THEN mant ELSE Slice(mant, 0, Find(mant, ".")),
              IF Find(mant, ".") < 0 THEN <<>>
              ELSE Slice(mant, Find(mant, ".") + 1, Len(mant)),
              IF etxt # <<>> /\ etxt[1] \in {"+", "-"} THEN Tail(etxt) ELSE etxt,
              etxt # <<>> /\ etxt[1] = "-")

\* the text body behind the sign is split at its first "e" or "E", epos
F64Split(neg, body, epos) ==
    F64Mantissa(neg, ToLower(body), epos # 0,
                IF epos = 0 THEN body ELSE SubSeq(body, 1, epos - 1),
                IF epos = 0 THEN <<>> ELSE SubSeq(body, epos + 1, Len(body)))

\* The parts of the text s that str::parse::<f64>() tells apart: an optional
\* sign, then "inf", "infinity" or "nan" in any case (word), or a mantissa of
\* digits with at most one "." and an optional exponent "e" or "E" with its
\* own optional sign.
F64Parts(s) ==
    F64Split(s # <<>> /\ s[1] = "-",
             IF s # <<>> /\ s[1] \in {"+", "-"} THEN Tail(s) ELSE s,
             ExpPos(IF s # <<>> /\ s[1] \in {"+", "-"} THEN Tail(s) ELSE s))

\* the f64 of a text with parts p, NoValue for Err: the f64 nearest to the
\* number the text denotes
F64Of(p) ==
    IF p.word \in {<<"i", "n", "f">>, <<"i", "n", "f", "i", "n", "i", "t", "y">>}
    THEN F64Inf(p.neg)
    ELSE IF p.word = <<"n", "a", "n">> THEN F64NaN(p.neg)
    ELSE IF ~p.ok THEN NoValue
    ELSE IF p.sig = <<>> THEN F64Zero(p.neg)
    ELSE IF p.exp > F64MaxExp10 THEN F64Inf(p.neg)
    ELSE IF p.exp < F64ZeroExp10 THEN F64Zero(p.neg)
    ELSE F64Decimal(p.neg, p.sig, p.exp - Len(p.sig) + 1)

\* str::parse::<f64>(): the f64 nearest to the number the text s denotes,
\* NoValue for Err
ParseF64(s) == F64Of(F64Parts(s))

(***************************************************************************)
(* Month names and dates.                                                  *)
(***************************************************************************)
\* get_month_as_uint: the two-letter prefix selects the month; for "Ma" and
\* "Ju" the third letter decides.  -1 where the slice at the last byte
\* panics: date is empty, or its last byte is inside a character.
get_month_as_uint(date) ==
    LET prefix == Slice(date, 0, Len(date) - 1)
        last   == Slice(date, Len(date) - 1, Len(date))
    IN IF ~SliceOk(date, 0, Len(date) - 1) THEN -1
       ELSE
       CASE prefix = <<"J", "a">> -> 1
         [] prefix = <<"F", "e">> -> 2
         [] prefix = <<"A", "p">> -> 4
         [] prefix = <<"A", "u">> -> 8
         [] prefix = <<"S", "e">> -> 9
         [] prefix = <<"O", "c">> -> 10
         [] prefix = <<"N", "o">> -> 11
         [] prefix = <<"D", "e">> -> 12
         [] prefix = <<"M", "a">> -> (IF last = <<"y">> THEN 3 ELSE 5)
         [] prefix = <<"J", "u">> -> (IF last = <<"n">> THEN 6 ELSE 7)
         [] OTHER -> 0

IsLeap(y) == (y % 4 = 0 /\ y % 100 # 0) \/ y % 400 = 0

DaysInMonth(y, m) ==
    CASE m \in {1, 3, 5, 7, 8, 10, 12} -> 31
      [] m \in {4, 6, 9, 11} -> 30
      [] m = 2 -> (IF IsLeap(y) THEN 29 ELSE 28)
      [] OTHER -> 0

\* days from 1970-01-01 to the civil date y-m-d (proleptic Gregorian)
DaysFromCivil(y, m, d) ==
    LET yy  == IF m <= 2 THEN y - 1 ELSE y
        era == yy \div 400
        yoe == yy - era * 400
        mp  == IF m > 2 THEN m - 3 ELSE m + 9
        doy == (153 * mp + 2) \div 5 + d - 1
        doe == yoe * 365 + yoe \div 4 - yoe \div 100 + doy
    IN era * 146097 + doe - 719468

\* tudelft_dsmr_output_generator::date_to_timestamp gives None for a date or
\* time of day that does not exist
date_to_timestamp_some(year, month, day, hour, minute, seconds) ==
    /\ month \in 1..12
    /\ day \in 1..DaysInMonth(year, month)
    /\ hour \in 0..23
    /\ minute \in 0..59
    /\ seconds \in 0..59

\* tudelft_dsmr_output_generator::date_to_timestamp: seconds since the epoch
\* of the local time, which is two hours east of UTC under daylight saving
\* and one hour east otherwise
date_to_timestamp(year, month, day, hour, minute, seconds, dst) ==
    DaysFromCivil(year, month, day) * 86400 + hour * 3600 + minute * 60 + seconds
        - (IF dst THEN 7200 ELSE 3600)

\* (&date[a..b]).parse() of a number field: -1 when the slice or the unwrap
\* of the parse panics
DateNumber(date, a, b) ==
    IF SliceOk(date, a, b) THEN ParseUInt(Slice(date, a, b)) ELSE -1

\* The slices and parses of a date token "YY-Mon-DD HH:MM:SS" (main.rs
\* 207-213 and 255-260).  Each field is -1 when its slice or its parse
\* panics.
DateFields(date) ==
    [yy  |-> DateNumber(date, 0, 2),
     dd  |-> DateNumber(date, 7, 9),
     hh  |-> DateNumber(date, 10, 12),
     mm  |-> DateNumber(date, 13, 15),
     ss  |-> DateNumber(date, 16, 18),
     mmm |-> IF SliceOk(date, 3, 6) THEN get_month_as_uint(Slice(date, 3, 6)) ELSE -1]

\* no slice, parse or unwrap of the date decoding panics
DateDecodes(date) ==
    LET f == DateFields(date)
    IN /\ f.yy >= 0 /\ f.dd >= 0 /\ f.hh >= 0 /\ f.mm >= 0 /\ f.ss >= 0
       /\ f.mmm >= 0
       /\ date_to_timestamp_some(2000 + f.yy, f.mmm, f.dd, f.hh, f.mm, f.ss)

\* the timestamp of a date token and its daylight-saving byte
DecodeDate(date, dts) ==
    LET f == DateFields(date)
    IN date_to_timestamp(2000 + f.yy, f.mmm, f.dd, f.hh, f.mm, f.ss, dts = "S")

(***************************************************************************)
(* The inputs of the model: header lines and field lines.                  *)
(***************************************************************************)
HeaderV10 == <<"/", "v", "1", "0", "\\", "+">>
HeaderV12 == <<"/", "v", "1", "2", "\\", "+">>
\* header lines cut short: "/v1", "/v", "/" and the empty line
HeaderShort == <<"/", "v", "1">>
HeaderCut   == <<"/", "v">>
HeaderSlash == <<"/">>
HeaderEmpty == <<>>
\* "/v1" and a character of two bytes, U+00E9: byte 4 is inside the character
HeaderWide  == <<"/", "v", "1", "<c3>", "<a9>">>
HeaderVocab ==
    {HeaderV10, HeaderV12, HeaderShort, HeaderCut, HeaderSlash, HeaderEmpty, HeaderWide}
\* what ends the header line in the input: a newline, a carriage return and
\* a newline, or nothing when the input ends with it
Terminators == {<<"\n">>, <<"\r", "\n">>, <<>>}

\* In a description of bytes that follow in the input, More as last element
\* stands for any bytes, none included; without it the input ends there.
More == "<more>"

IsOpen(bs) == bs # <<>> /\ bs[Len(bs)] = More

\* the bytes a description fixes
Known(bs) == IF IsOpen(bs) THEN SubSeq(bs, 1, Len(bs) - 1) ELSE bs

\* a second line "v10"
LV10 == <<"v", "1", "0">>
\* a second line "10": its tag is that of a boundary line, and it has no
\* third byte
L10 == <<"1", "0">>

\* what follows the header line and its newline: nothing, any bytes, the
\* line "v10" and any bytes, that line ended by a carriage return and a
\* newline, or the line "10" and any bytes
FollowVocab ==
    {<<>>, <<More>>, LV10 \o <<"\n", More>>, LV10 \o <<"\r", "\n", More>>,
     L10 \o <<"\n", More>>}

\* the first line of the bytes bs, which hold a newline: the bytes in front
\* of the newline, without a carriage return at their end
FirstLine(bs) ==
    IF Find(bs, "\n") > 0 /\ bs[Find(bs, "\n")] = "\r"
    THEN Slice(bs, 0, Find(bs, "\n") - 1)
    ELSE Slice(bs, 0, Find(bs, "\n"))

\* the line that the bytes follow fix, if they fix one, is a line of vocab
Admits(vocab, follow) ==
    Find(Known(follow), "\n") >= 0 => FirstLine(Known(follow)) \in vocab

\* "23-<mon>-<dd> 10:20:30 (<dts>)"
DateToken(mon, dd, dts) ==
    <<"2", "3", "-">> \o mon \o <<"-">> \o dd
        \o <<" ", "1", "0", ":", "2", "0", ":", "3", "0", " ", "(", dts, ")">>

Jan == <<"J", "a", "n">>
Feb == <<"F", "e", "b">>
Mar == <<"M", "a", "r">>
Apr == <<"A", "p", "r">>
May == <<"M", "a", "y">>
Jun == <<"J", "u", "n">>
Jul == <<"J", "u", "l">>
Aug == <<"A", "u", "g">>
Sep == <<"S", "e", "p">>
Oct == <<"O", "c", "t">>
Nov == <<"N", "o", "v">>
Dec == <<"D", "e", "c">>

\* "2.1#(<token>)"
TelegramDateLine(token) == <<"2", ".", "1", "#", "(">> \o token \o <<")">>
\* "3.<kind>.<id>#(<payload>)"
EventLine(kind, id, payload) == <<"3", ".", kind, ".", id, "#", "(">> \o payload \o <<")">>
\* "7.<quantity>.<phase>#(<value>*<unit>)"
ElectricityLine(quantity, phase, value, unit) ==
    <<"7", ".", quantity, ".", phase, "#", "(">> \o value \o <<"*", unit, ")">>

LBlank      == <<>>
LUnknown    == <<"5", ".", "1", "#", "(", "x", ")">>
LStart      == <<"1", ".", "1", ".", "0", "#", "(", "S", "T", "A", "R", "T", ")">>
LEnd        == <<"1", ".", "2", ".", "0", "#", "(", "E", "N", "D", ")">>
LChildStart == <<"1", ".", "1", ".", "1", "#", "(", "S", "T", "A", "R", "T", ")">>
LChildEnd   == <<"1", ".", "2", ".", "1", "#", "(", "E", "N", "D", ")">>
LInfo       == <<"4", ".", "1", "#", "(", "E", ")">>
LDateJan    == TelegramDateLine(DateToken(Jan, <<"0", "5">>, "S"))
LDateMay    == TelegramDateLine(DateToken(May, <<"0", "5">>, "W"))
\* the 30th of February: the epoch conversion gives None
LBadDate    == TelegramDateLine(DateToken(Feb, <<"3", "0">>, "S"))
LVolt1      == ElectricityLine("1", "1", <<"2", "3", "0", ".", "5">>, "V")
LCur2       == ElectricityLine("2", "2", <<"1", ".", "5">>, "A")
LVolt1b     == ElectricityLine("1", "1", <<"2", "3", "1", ".", "0">>, "V")
LTotalIn    == ElectricityLine("4", "1", <<"1", "2", ".", "5">>, "J")
LTotalInB   == ElectricityLine("4", "1", <<"1", "3", ".", "0">>, "J")
\* 0.1 is no f64: the parse rounds it
LTotalOut   == ElectricityLine("4", "2", <<"0", ".", "1">>, "J")
\* phase 4: the phase assertion fails
LBadPhase   == ElectricityLine("1", "4", <<"1", ".", "0">>, "V")
LSev1       == EventLine("1", "1", <<"H">>)
LSev2       == EventLine("1", "2", <<"L">>)
LMsg1       == EventLine("2", "1", <<"4", "e">>)
LMsg2       == EventLine("2", "2", <<"4", "1", "4", "2">>)
\* "3.2.1#" and a character of two bytes: byte 7, where the message begins,
\* is the second byte of the character
LMsgWide    == <<"3", ".", "2", ".", "1", "#", "<c3>", "<a9>", ")">>
LEvDate1    == EventLine("3", "1", DateToken(Mar, <<"0", "7">>, "S"))
LEvDate2    == EventLine("3", "2", DateToken(Jun, <<"0", "8">>, "W"))

BoundaryVocab    == {LStart, LEnd, LChildStart, LChildEnd}
DateVocab        == {LDateJan, LDateMay, LBadDate}
ElectricityVocab == {LVolt1, LCur2, LBadPhase}
\* two lines for the voltage of phase 1, two for the total consumed and one
\* for the total produced
SlotVocab        == {LVolt1, LVolt1b, LTotalIn, LTotalInB, LTotalOut}
ElectricityLines == ElectricityVocab \cup SlotVocab
EventVocab       == {LSev1, LSev2, LMsg1, LMsg2, LEvDate1, LEvDate2}
\* the lines of Spec: every kind of line, the event-log lines of one event
\* id, its message the one that begins inside a character
LineVocab ==
    {LBlank, LUnknown, LV10, L10, LInfo} \cup BoundaryVocab \cup DateVocab
        \cup ElectricityVocab \cup {LSev1, LMsgWide, LEvDate1}
\* the lines of SpecEvents: the event-log lines of two event ids, and one line
\* of every other kind
EventFocusVocab ==
    {LBlank, LUnknown, LV10, LInfo, LEnd, LDateMay, LVolt1} \cup EventVocab
\* the lines of SpecSlots: electricity lines that address the same slots, and
\* one line of every other kind
SlotFocusVocab ==
    {LBlank, LUnknown, LV10, LInfo, LEnd, LDateJan, LSev1} \cup SlotVocab

(***************************************************************************)
(* Values of the program.                                                  *)
(***************************************************************************)
\* main.rs:91-98 and 193-197  0.0 in every slot
ZeroElectricity ==
    LET z == F64Zero(FALSE)
    IN [power |-> <<z, z, z>>, voltage |-> <<z, z, z>>, current |-> <<z, z, z>>,
        total_consumed |-> z, total_produced |-> z]

NoResult   == [kind |-> "none",  error |-> "", value |-> <<>>]
Ok(v)      == [kind |-> "Ok",    error |-> "", value |-> v]
Err(e)     == [kind |-> "Err",   error |-> e,  value |-> <<>>]
Panic(why) == [kind |-> "Panic", error |-> why, value |-> <<>>]

\* the accumulator and the output list: the locals of parse_v10
accum == <<dsmr, electricity, telegram_date, dates, messages, severities,
           seen_info_type, has_electricity, has_telegram_date>>

(***************************************************************************)
(* The field handlers of parse_v10, as functions of the line.              *)
(***************************************************************************)
\* the tag is read from the third byte
Tag_Third(l) == Byte(l, 2)

\* main.rs:114-115  the tag of a line: its first byte
Tag(l) == Byte(l, 0)

\* main.rs:116-319  the tags that have a match arm
KnownTags == {"1", "2", "3", "4", "7"}

\* main.rs:119  the boundary line starts a child telegram
IsChildTelegram(l) == Byte(l, 2) = "1" /\ Byte(l, 4) # "0"

\* every boundary line is taken for an end marker
IsTelegramEnd_Always(l) == TRUE

\* main.rs:122  the boundary line ends a telegram
IsTelegramEnd(l) == Byte(l, 2) = "2"

\* main.rs:119  bytes[2], and bytes[4] when bytes[2] is '1', are in the line
BoundaryIndexes(l) == Len(l) >= 3 /\ (Byte(l, 2) = "1" => Len(l) >= 5)

\* main.rs:281  the information-type marker was already seen
InfoTypeDuplicate(seen) == seen

\* the check of the information-type marker left out
InfoTypeMissing_Never(seen) == FALSE

\* main.rs:288  no information-type marker was seen yet
InfoTypeMissing(seen) == ~seen

\* the electricity check of a telegram end left out
EndError_DateOnly(hasElectricity, hasDate) ==
    IF ~hasDate THEN "NoDate" ELSE ""

\* the date check of a telegram end left out
EndError_ElectricityOnly(hasElectricity, hasDate) ==
    IF ~hasElectricity THEN "MissingElectricity" ELSE ""

\* main.rs:124-129  the error of a telegram end, "" for none
EndError(hasElectricity, hasDate) ==
    IF ~hasElectricity THEN "MissingElectricity"
    ELSE IF ~hasDate THEN "NoDate"
    ELSE ""

\* insert x into the id-sorted list t, behind every entry whose id is not greater
InsertById(x, t) ==
    LET le == {i \in 1..Len(t) : t[i][1] <= x[1]}
        k  == Cardinality(le)
    IN SubSeq(t, 1, k) \o <<x>> \o SubSeq(t, k + 1, Len(t))

\* the sort left out
SortById_None(s) == s

\* main.rs:132-142  sort_unstable_by on the event id, for a slice of at most
\* SmallSortMax elements: the standard library sorts it by insertion, which
\* keeps entries of equal id in arrival order
RECURSIVE SortById(_)
SortById(s) ==
    IF s = <<>> THEN <<>>
    ELSE InsertById(s[Len(s)], SortById(SubSeq(s, 1, Len(s) - 1)))

\* the longest slice that sort_unstable_by sorts by insertion
SmallSortMax == 20

\* the lists that hold the entries of s, each as often as s does, by
\* ascending id
Arrangements(s) ==
    LET entries == {s[i] : i \in 1..Len(s)}
        count(t, x) == Cardinality({i \in 1..Len(t) : t[i] = x})
    IN {t \in [1..Len(s) -> entries] :
           /\ \A i, j \in 1..Len(t) : i < j => t[i][1] <= t[j][1]
           /\ \A x \in entries : count(t, x) = count(s, x)}

\* main.rs:132-142  what sort_unstable_by may leave in place of s: beyond
\* SmallSortMax elements the order of the entries of equal id is the sorting
\* algorithm's, any order here
SortOutcomes(s) ==
    IF Len(s) <= SmallSortMax THEN {SortById(s)} ELSE Arrangements(s)

\* the two assertions on the ids left out
Correlates_LengthsOnly(d, sv, m) ==
    /\ Len(d) = Len(sv)
    /\ Len(d) = Len(m)

\* main.rs:145-146 and 161-162  the four assertions of the correlation
Correlates(d, sv, m) ==
    /\ Len(d) = Len(sv)
    /\ Len(d) = Len(m)
    /\ \A i \in 1..Len(d) : d[i][1] = m[i][1] /\ d[i][1] = sv[i][1]

\* main.rs:148-170  the event log of the three sorted lists
MakeEventLog(d, sv, m) ==
    [ids        |-> [i \in 1..Len(d) |-> d[i][1]],
     dates      |-> [i \in 1..Len(d) |-> d[i][2]],
     messages   |-> [i \in 1..Len(d) |-> m[i][2]],
     severities |-> [i \in 1..Len(d) |-> sv[i][2]]]

\* main.rs:173-177
MakeTelegram(date, event_log, information) ==
    [date |-> date, event_log |-> event_log, information |-> information]

\* a push at the front of the list instead of its end
Push_Front(list, telegram) == <<telegram>> \o list

\* the telegram takes the place of the last one
Push_ReplaceLast(list, telegram) ==
    IF list = <<>> THEN <<telegram>>
    ELSE [list EXCEPT ![Len(list)] = telegram]

\* main.rs:182  dsmr.push
Push(list, telegram) == Append(list, telegram)

\* the reset of seen_info_type left out
NewTelegram_KeepInfoType ==
    [seen_info_type |-> seen_info_type, has_electricity |-> FALSE,
     has_telegram_date |-> FALSE, telegram_date |-> 0,
     dates |-> <<>>, severities |-> <<>>, messages |-> <<>>,
     electricity |-> ZeroElectricity]

\* the reset of the electricity buffer left out
NewTelegram_KeepElectricity ==
    [seen_info_type |-> FALSE, has_electricity |-> FALSE,
     has_telegram_date |-> FALSE, telegram_date |-> 0,
     dates |-> <<>>, severities |-> <<>>, messages |-> <<>>,
     electricity |-> electricity]

\* main.rs:186-199  the accumulator of a new telegram
NewTelegram ==
    [seen_info_type |-> FALSE, has_electricity |-> FALSE,
     has_telegram_date |-> FALSE, telegram_date |-> 0,
     dates |-> <<>>, severities |-> <<>>, messages |-> <<>>,
     electricity |-> ZeroElectricity]

\* main.rs:204-205  the bytes of the date token of a telegram date line
DateInner(l) == Slice(l, 5, RFind(l, ")"))

\* main.rs:206  the date token as a string
DateString(l) == from_utf8_lossy(DateInner(l))

\* main.rs:204-225  no index, slice, parse or unwrap of the handler panics
TelegramDateOk(l) ==
    /\ RFind(l, ")") >= 5
    /\ DateDecodes(DateString(l))
    /\ Len(DateInner(l)) >= 2

\* main.rs:207-225  the timestamp of a telegram date line
TelegramTimestamp(l) ==
    DecodeDate(DateString(l), Byte(DateInner(l), Len(DateInner(l)) - 2))

\* main.rs:233-234  the payload of an event-log line
EventVal(l) == Slice(l, 7, RFind(l, ")"))

\* main.rs:236-237
EventId(l) == to_digit(Byte(l, 4))

\* main.rs:241-245
SeverityOf(l) == IF Byte(l, 7) = "H" THEN "High" ELSE "Low"

\* main.rs:247  the message of an event message line
EventMessage(l) == from_utf8_lossy(EventVal(l))

\* main.rs:252  the date token of an event date line
EventDateToken(l) == from_utf8_lossy(Slice(EventVal(l), 0, Len(EventVal(l)) - 4))

\* main.rs:252-273  the timestamp of an event date line
EventTimestamp(l) ==
    DecodeDate(EventDateToken(l), Byte(EventVal(l), Len(EventVal(l)) - 2))

\* main.rs:232-277  no index, slice, parse, unwrap or unreachable! of the
\* handler panics
EventLineOk(l) ==
    /\ Len(l) >= 3
    /\ RFind(l, ")") >= 7
    /\ EventId(l) >= 0
    /\ Byte(l, 2) \in {"1", "2", "3"}
    /\ Byte(l, 2) = "3" =>
          /\ Len(EventVal(l)) >= 4
          /\ DateDecodes(EventDateToken(l))

\* main.rs:293-294  bytes[4] - b'1' does not overflow and the phase is at most 2
PhaseOk(l) == Byte(l, 4) \in {"1", "2", "3"}

\* main.rs:293  the 0-based phase
Phase(l) == to_digit(Byte(l, 4)) - 1

\* main.rs:296-298  the text between byte 7 and the first "*"
ValueText(l) == Slice(l, 7, Find(l, "*"))

\* the values of the electricity lines of the model's inputs
ElectricityValues == [l \in ElectricityLines |-> ParseF64(ValueText(l))]

\* main.rs:297-299
ElectricityValue(l) ==
    IF l \in ElectricityLines THEN ElectricityValues[l] ELSE ParseF64(ValueText(l))

\* main.rs:293-317  no index, assertion, parse, unwrap or unreachable! of the
\* handler panics
ElectricityLineOk(l) ==
    /\ PhaseOk(l)
    /\ Find(l, "*") >= 7
    /\ Utf8Ok(ValueText(l))
    /\ ElectricityValue(l) # NoValue
    /\ Byte(l, 2) \in {"1", "2", "3", "4"}

\* a total that was written is not written again
StoreElectricity_KeepTotals(e, l) ==
    LET v  == ElectricityValue(l)
        ph == Phase(l) + 1
    IN CASE Byte(l, 2) = "1" -> [e EXCEPT !.voltage[ph] = v]
         [] Byte(l, 2) = "2" -> [e EXCEPT !.current[ph] = v]
         [] Byte(l, 2) = "3" -> [e EXCEPT !.power[ph] = v]
         [] Byte(l, 2) = "4" ->
               (IF Byte(l, 4) = "1"
                THEN [e EXCEPT !.total_consumed = IF @ = F64Zero(FALSE) THEN v ELSE @]
                ELSE [e EXCEPT !.total_produced = IF @ = F64Zero(FALSE) THEN v ELSE @])

\* main.rs:305-317  the buffer after the field of line l is stored
StoreElectricity(e, l) ==
    LET v  == ElectricityValue(l)
        ph == Phase(l) + 1
    IN CASE Byte(l, 2) = "1" -> [e EXCEPT !.voltage[ph] = v]
         [] Byte(l, 2) = "2" -> [e EXCEPT !.current[ph] = v]
         [] Byte(l, 2) = "3" -> [e EXCEPT !.power[ph] = v]
         [] Byte(l, 2) = "4" ->
               (IF Byte(l, 4) = "1" THEN [e EXCEPT !.total_consumed = v]
                ELSE [e EXCEPT !.total_produced = v])

\* main.rs:328-329  bytes 1..4 of the input name version v10
IsV10(h) == Slice(h, 1, 4) = <<"v", "1", "0">>

\* char::to_digit(16): the hex digit's value, -1 for None
to_digit16(c) ==
    CASE IsDigit(c) -> to_digit(c)
      [] c \in {"a", "A"} -> 10
      [] c \in {"b", "B"} -> 11
      [] c \in {"c", "C"} -> 12
      [] c \in {"d", "D"} -> 13
      [] c \in {"e", "E"} -> 14
      [] c \in {"f", "F"} -> 15
      [] OTHER -> -1

\* the low digit taken for the high one
HexPair_Swapped(h, l) == l * 16 + h

\* main.rs:360  the code point of a pair of hex digits
HexPair(h, l) == h * 16 + l

\* main.rs:351-359  every byte of the pairs chunks_exact(2) yields is a hex
\* digit (a last odd byte is in no pair)
DecodeOk(msg) ==
    \A i \in 1..(2 * (Len(msg) \div 2)) : to_digit16(msg[i]) # -1

\* main.rs:349-364  the text of a message, as the code points of its characters
DecodeMessage(msg) ==
    [i \in 1..(Len(msg) \div 2) |->
        HexPair(to_digit16(msg[2 * i - 1]), to_digit16(msg[2 * i]))]

\* main.rs:342-345  zip of the severities and the messages of a telegram
ZipLen(tel) ==
    IF Len(tel.event_log.severities) <= Len(tel.event_log.messages)
    THEN Len(tel.event_log.severities)
    ELSE Len(tel.event_log.messages)

\* main.rs:336-368  for each telegram, the (severity, text) pairs of its event
\* log; Panic when a message pair is not made of hex digits
get_event_log_message(d) ==
    IF \E k \in 1..Len(d) : \E i \in 1..ZipLen(d[k]) :
           ~DecodeOk(d[k].event_log.messages[i])
    THEN Panic("unwrap on None")
    ELSE Ok([k \in 1..Len(d) |->
                [i \in 1..ZipLen(d[k]) |->
                    <<d[k].event_log.severities[i],
                      DecodeMessage(d[k].event_log.messages[i])>>]])

(***************************************************************************)
(* The history of the input: which lines were dispatched.  It is kept from *)
(* the lines alone, whatever the parser makes of them.                     *)
(***************************************************************************)
StartMarkers    == {LStart, LChildStart}
EndMarkers      == {LEnd, LChildEnd}
\* field lines that are well-formed taken alone
WellFormedLines ==
    {LInfo, LDateJan, LDateMay, LCur2, LMsgWide} \cup SlotVocab \cup EventVocab

\* info: an information-type line was dispatched; elec: the electricity lines
\* dispatched, the last one for each slot; date: the last telegram date line
\* dispatched, <<>> for none; ev: the event-log lines dispatched, with
\* multiplicity; unsorted: an event-log line came after one of its kind with
\* a greater id; skipped: before any end marker, a blank line or a line of
\* unknown tag was dispatched behind the information-type, electricity and
\* date lines; over: an electricity line came after another line for its slot
EmptyCensus ==
    [info |-> FALSE, elec |-> {}, date |-> <<>>, ev |-> EmptyBag,
     unsorted |-> FALSE, skipped |-> FALSE, over |-> FALSE]

\* two electricity lines of the same quantity and phase
SameSlot(e, l) == e[3] = l[3] /\ e[5] = l[5]

\* kind ("1" severity, "2" message, "3" date) and id of an event-log line
EvKind(l) == l[3]
EvId(l)   == l[5]

\* the event-log lines of kind k and id n in the bag ev, with multiplicity
EvCount(ev, k, n) ==
    LET ls == {l \in BagToSet(ev) : EvKind(l) = k /\ EvId(l) = n}
    IN BagCardinality([l \in ls |-> CopiesIn(l, ev)])

EvIds(ev) == {EvId(l) : l \in BagToSet(ev)}

\* one severity, one message and one date line for each event id
Complete(ev) ==
    \A n \in EvIds(ev) : \A k \in {"1", "2", "3"} : EvCount(ev, k, n) = 1

\* the three kinds of sub-field can be matched one-to-one by id
Matchable(ev) ==
    \A n \in EvIds(ev) :
        /\ EvCount(ev, "1", n) = EvCount(ev, "2", n)
        /\ EvCount(ev, "1", n) = EvCount(ev, "3", n)

HistHeader(h) ==
    /\ wf' = (wf /\ h = HeaderV10)
    /\ UNCHANGED <<open, recv, ends, closed, orphan>>

HistCensus(l) ==
    CASE l = L10 ->
            /\ wf' = FALSE
            /\ UNCHANGED <<open, recv, ends, closed>>
      [] l \in BoundaryVocab ->
            /\ open' = (l \in StartMarkers)
            /\ recv' = EmptyCensus
            /\ ends' = IF l \in EndMarkers THEN ends + 1 ELSE ends
            /\ closed' = IF l \in EndMarkers
                         THEN Append(closed, [recv EXCEPT !.skipped = FALSE,
                                                          !.over = FALSE])
                         ELSE closed
            /\ wf' = /\ wf
                     /\ l \in {LStart, LEnd}
                     /\ l = LStart => ~open
                     /\ l = LEnd =>
                           /\ open /\ recv.info /\ recv.elec # {} /\ recv.date # <<>>
                           /\ Complete(recv.ev)
      [] l = LInfo ->
            /\ recv' = [recv EXCEPT !.info = TRUE]
            /\ wf' = (wf /\ open /\ ~recv.info)
            /\ UNCHANGED <<open, ends, closed>>
      [] l \in ElectricityLines ->
            /\ recv' = [recv EXCEPT
                           !.elec = {e \in @ : ~SameSlot(e, l)} \cup {l},
                           !.over = @ \/ \E e \in recv.elec : e # l /\ SameSlot(e, l)]
            /\ wf' = (wf /\ open /\ recv.info /\ l \in WellFormedLines)
            /\ UNCHANGED <<open, ends, closed>>
      [] l \in DateVocab ->
            /\ recv' = [recv EXCEPT !.date = l]
            /\ wf' = (wf /\ open /\ l \in WellFormedLines)
            /\ UNCHANGED <<open, ends, closed>>
      [] l \in EventVocab \cup {LMsgWide} ->
            /\ recv' = [recv EXCEPT
                           !.ev = @ (+) SetToBag({l}),
                           !.unsorted = @ \/ \E e \in BagToSet(recv.ev) :
                               EvKind(e) = EvKind(l) /\ to_digit(EvId(e)) > to_digit(EvId(l))]
            /\ wf' = (wf /\ open /\ l \in WellFormedLines)
            /\ UNCHANGED <<open, ends, closed>>
      [] OTHER ->
            /\ recv' = [recv EXCEPT
                           !.skipped = @ \/ /\ ends = 0
                                             /\ recv.info /\ recv.elec # {}
                                             /\ recv.date # <<>>]
            /\ UNCHANGED <<open, ends, closed, wf>>

HistLine(l) ==
    /\ orphan' = (l \in EndMarkers /\ ~open)
    /\ HistCensus(l)

(***************************************************************************)
(* The program.                                                            *)
(***************************************************************************)
Init ==
    /\ pc = "parse"
    /\ result = NoResult
    /\ dsmr = <<>>
    /\ electricity = ZeroElectricity
    /\ telegram_date = 0
    /\ dates = <<>>
    /\ messages = <<>>
    /\ severities = <<>>
    /\ seen_info_type = FALSE
    /\ has_electricity = FALSE
    /\ has_telegram_date = FALSE
    /\ open = FALSE
    /\ recv = EmptyCensus
    /\ ends = 0
    /\ closed = <<>>
    /\ wf = TRUE
    /\ orphan = FALSE
    /\ ahead = <<More>>

\* parse_v10 returns or panics: its locals are left as they are
Stop(res) ==
    /\ pc' = "done"
    /\ result' = res
    /\ UNCHANGED accum

\* main.rs:325-334 and 86-88  parse, on the input made of header line h, its
\* terminator eol and the bytes follow: the version check on bytes 1..4 of
\* the whole input, and the header line consumed by parse_v10.  The input is
\* a str: the bytes fixed are characters from end to end, and so are the
\* bytes left open.  The bytes the version check reads are all fixed by h,
\* eol and follow.
Parse(h, eol, follow) ==
    LET input == Known(h \o eol \o follow)
    IN
    /\ pc = "parse"
    /\ eol = <<>> => follow = <<>>
    /\ Utf8Ok(input)
    /\ IsOpen(follow) => Len(input) >= 4
    /\ IF ~SliceOk(input, 1, 4) THEN Stop(Panic("byte index out of range"))
       ELSE IF IsV10(input) THEN pc' = "loop" /\ UNCHANGED <<result, accum>>
       ELSE Stop(Err("UnknownTelegramVersion"))
    /\ ahead' = follow
    /\ HistHeader(h)

\* the bytes s begin with the bytes t
StartsWith(s, t) == Len(t) <= Len(s) /\ SubSeq(s, 1, Len(t)) = t

\* main.rs:109  str::lines: the length of what ends line l in the bytes
\* fixed ahead, a newline or a carriage return and a newline; 0 when they
\* fix no end of l.  A carriage return in front of the newline is not part
\* of the line.
LineEnd(l) ==
    IF Len(Known(ahead)) <= Len(l) THEN 0
    ELSE IF StartsWith(Known(ahead), l \o <<"\r", "\n">>) THEN 2
    ELSE IF /\ StartsWith(Known(ahead), l \o <<"\n">>)
            /\ l = <<>> \/ l[Len(l)] # "\r"
    THEN 1
    ELSE 0

\* main.rs:109  the lines iterator can yield line l next: the bytes fixed
\* ahead begin with l and what ends it, or they are l and the input ends, or
\* l and what ends it go on into the bytes left open
NextLine(l) ==
    /\ l \in Seq(STRING \ {"\n"})
    /\ \/ LineEnd(l) > 0
       \/ /\ IsOpen(ahead)
          /\ \/ StartsWith(l, Known(ahead))
             \/ Known(ahead) = l \o <<"\r">>
       \/ /\ ~IsOpen(ahead)
          /\ l # <<>>
          /\ Known(ahead) = l

\* main.rs:109  what is ahead once line l was yielded
AfterLine(l) ==
    IF LineEnd(l) > 0 THEN SubSeq(ahead, Len(l) + LineEnd(l) + 1, Len(ahead))
    ELSE IF IsOpen(ahead) THEN <<More>>
    ELSE <<>>

\* main.rs:110-112
BlankLine(l) ==
    /\ pc = "loop"
    /\ l = <<>>
    /\ UNCHANGED prog
    /\ HistLine(l)

\* main.rs:116-200
TelegramBoundary(l) ==
    LET sorted(s) == IF IsTelegramEnd(l) THEN SortOutcomes(s) ELSE {s}
        err == EndError(has_electricity, has_telegram_date)
        new == NewTelegram
    IN
    /\ pc = "loop"
    /\ l # <<>> /\ Tag(l) = "1"
    /\ IF ~BoundaryIndexes(l) THEN Stop(Panic("index out of bounds"))
       ELSE IF IsChildTelegram(l) THEN Stop(Err("ChildTelegramNotSupported"))
       ELSE IF IsTelegramEnd(l) /\ err # "" THEN Stop(Err(err))
       ELSE \E sd \in sorted(dates), ssv \in sorted(severities),
               sm \in sorted(messages) :
            IF IsTelegramEnd(l) /\ ~Correlates(sd, ssv, sm)
            THEN Stop(Panic("assertion failed"))
            ELSE /\ dsmr' = IF IsTelegramEnd(l)
                            THEN Push(dsmr, MakeTelegram(telegram_date,
                                                         MakeEventLog(sd, ssv, sm),
                                                         electricity))
                            ELSE dsmr
                 /\ seen_info_type' = new.seen_info_type
                 /\ has_electricity' = new.has_electricity
                 /\ has_telegram_date' = new.has_telegram_date
                 /\ telegram_date' = new.telegram_date
                 /\ dates' = new.dates
                 /\ severities' = new.severities
                 /\ messages' = new.messages
                 /\ electricity' = new.electricity
                 /\ UNCHANGED <<pc, result>>
    /\ HistLine(l)

\* main.rs:201-227
TelegramDate(l) ==
    /\ pc = "loop"
    /\ l # <<>> /\ Tag(l) = "2"
    /\ IF ~TelegramDateOk(l) THEN Stop(Panic("date"))
       ELSE /\ telegram_date' = TelegramTimestamp(l)
            /\ has_telegram_date' = TRUE
            /\ UNCHANGED <<pc, result, dsmr, electricity, dates, messages,
                           severities, seen_info_type, has_electricity>>
    /\ HistLine(l)

\* main.rs:228-278
EventLogField(l) ==
    /\ pc = "loop"
    /\ l # <<>> /\ Tag(l) = "3"
    /\ IF ~EventLineOk(l) THEN Stop(Panic("event log"))
       ELSE /\ CASE Byte(l, 2) = "1" ->
                      /\ severities' = Append(severities, <<EventId(l), SeverityOf(l)>>)
                      /\ UNCHANGED <<messages, dates>>
                 [] Byte(l, 2) = "2" ->
                      /\ messages' = Append(messages, <<EventId(l), EventMessage(l)>>)
                      /\ UNCHANGED <<severities, dates>>
                 [] Byte(l, 2) = "3" ->
                      /\ dates' = Append(dates, <<EventId(l), EventTimestamp(l)>>)
                      /\ UNCHANGED <<severities, messages>>
            /\ UNCHANGED <<pc, result, dsmr, electricity, telegram_date,
                           seen_info_type, has_electricity, has_telegram_date>>
    /\ HistLine(l)

\* main.rs:279-285
InformationType(l) ==
    /\ pc = "loop"
    /\ l # <<>> /\ Tag(l) = "4"
    /\ IF InfoTypeDuplicate(seen_info_type) THEN Stop(Err("DuplicateFieldId"))
       ELSE /\ seen_info_type' = TRUE
            /\ UNCHANGED <<pc, result, dsmr, electricity, telegram_date, dates,
                           messages, severities, has_electricity, has_telegram_date>>
    /\ HistLine(l)

\* main.rs:286-318
ElectricityField(l) ==
    /\ pc = "loop"
    /\ l # <<>> /\ Tag(l) = "7"
    /\ IF InfoTypeMissing(seen_info_type) THEN Stop(Err("MissingElectricity"))
       ELSE IF ~ElectricityLineOk(l) THEN Stop(Panic("electricity"))
       ELSE /\ has_electricity' = TRUE
            /\ electricity' = StoreElectricity(electricity, l)
            /\ UNCHANGED <<pc, result, dsmr, telegram_date, dates, messages,
                           severities, seen_info_type, has_telegram_date>>
    /\ HistLine(l)

\* main.rs:319
IgnoredLine(l) ==
    /\ pc = "loop"
    /\ l # <<>> /\ Tag(l) \notin KnownTags
    /\ UNCHANGED prog
    /\ HistLine(l)

\* main.rs:109 and 322  the lines are exhausted: Ok(dsmr)
EndOfInput ==
    /\ pc = "loop"
    /\ Known(ahead) = <<>>
    /\ pc' = "done"
    /\ result' = Ok(dsmr)
    /\ UNCHANGED accum
    /\ UNCHANGED hist
    /\ UNCHANGED ahead

\* main.rs:110-321  the body of the loop on line l
Handle(l) ==
    \/ BlankLine(l)
    \/ TelegramBoundary(l)
    \/ TelegramDate(l)
    \/ EventLogField(l)
    \/ InformationType(l)
    \/ ElectricityField(l)
    \/ IgnoredLine(l)

\* main.rs:109-321  one iteration of the loop: the iterator yields line l and
\* the body handles it
Dispatch(l) ==
    /\ NextLine(l)
    /\ ahead' = AfterLine(l)
    /\ Handle(l)

\* the input stays within the bounds of the model when its next line is l:
\* it has no more telegrams and no telegram more event-log lines of a kind
\* than the bounds allow, and event-log lines in its first telegrams only
InBounds(l) ==
    /\ Len(dsmr') <= MaxTelegrams
    /\ Len(severities') <= MaxEvents
    /\ Len(messages') <= MaxEvents
    /\ Len(dates') <= MaxEvents
    /\ (l # <<>> /\ Tag(l) = "3") => Len(dsmr) < MaxEventTelegrams

\* a step of parse on an input whose lines are drawn from vocab: the lines
\* that parse_v10 is given are lines of vocab
NextOver(vocab) ==
    \/ /\ pc = "parse"
       /\ \E h \in HeaderVocab, eol \in Terminators, follow \in FollowVocab :
              /\ Parse(h, eol, follow)
              /\ pc' = "loop" => Admits(vocab, follow)
    \/ /\ pc = "loop"
       /\ \E l \in vocab : Dispatch(l) /\ InBounds(l)
    \/ EndOfInput

Next == NextOver(LineVocab)

Spec == Init /\ [][Next]_vars

NextEvents == NextOver(EventFocusVocab)

SpecEvents == Init /\ [][NextEvents]_vars

NextSlots == NextOver(SlotFocusVocab)

SpecSlots == Init /\ [][NextSlots]_vars

(***************************************************************************)
(* The claims.                                                             *)
(***************************************************************************)
\* the telegrams parse returned, <<>> when it returned none
Returned == IF result.kind = "Ok" THEN result.value ELSE <<>>

\* parse failed: an error result or a panic
Failed == result.kind \in {"Err", "Panic"}

\* the f64 0.0
Zero == F64Zero(FALSE)

\* the positive f64 m * 2^e, bits the binary digits of the odd number m:
\* 230.5 is 461 * 2^-1, and 461 is 111001101 in binary
Binary(bits, e) == F64Num(FALSE, bits, e)

\* the f64 nearest to 0.1: 3602879701896397 * 2^-55
Tenth ==
    Binary(<<1, 1, 0, 0, 1, 1, 0, 0, 1, 1, 0, 0, 1,
           1, 0, 0, 1, 1, 0, 0, 1, 1, 0, 0, 1, 1,
           0, 0, 1, 1, 0, 0, 1, 1, 0, 0, 1, 1, 0,
           0, 1, 1, 0, 0, 1, 1, 0, 0, 1, 1, 0, 1>>, -55)

\* telegram t is made of the lines with census c: its timestamp is that of
\* the last date line, its event log has one entry for each event id, and
\* its electricity slots hold the values of the electricity lines
IsTelegramOf(t, c) ==
    /\ c.date # <<>>
    /\ t.date = TelegramTimestamp(c.date)
    /\ Len(t.event_log.ids) = Cardinality(EvIds(c.ev))
    /\ {t.event_log.ids[i] : i \in 1..Len(t.event_log.ids)}
           = {to_digit(n) : n \in EvIds(c.ev)}
    /\ t.information.voltage[1] = (IF LVolt1 \in c.elec THEN Binary(<<1, 1, 1, 0, 0, 1, 1, 0, 1>>, -1) ELSE Zero)
    /\ t.information.current[2] = (IF LCur2 \in c.elec THEN Binary(<<1, 1>>, -1) ELSE Zero)

\* C1: an input with a v10 header whose telegrams are each well-formed never
\* makes parse fail, and at the end of the input parse returns one telegram
\* for each end marker, the k-th made of the lines the k-th end marker closed.
C1_WellFormedInputParses ==
    wf => /\ ~Failed
          /\ pc = "done" =>
                /\ result.kind = "Ok"
                /\ Len(result.value) = ends
                /\ \A k \in 1..ends : IsTelegramOf(result.value[k], closed[k])

\* a well-formed input of two different telegrams, the first with an event,
\* was parsed to its end
C1_Witness ==
    /\ wf /\ pc = "done" /\ ends = 2
    /\ Len(Returned) = 2
    /\ Returned[1].date # Returned[2].date
    /\ Len(Returned[1].event_log.ids) = 1

\* C2: an electricity line dispatched when no information-type line was
\* dispatched since the last boundary line makes parse return
\* MissingElectricity, whatever earlier telegrams held.
C2_ElectricityNeedsInfoType ==
    [][\A l \in ElectricityVocab :
          (ElectricityField(l) /\ ~recv.info)
              => (pc' = "done" /\ result' = Err("MissingElectricity"))]_vars

\* a second telegram's electricity line failed for want of an information-type
\* line although the first telegram had one
C2_Witness ==
    /\ result = Err("MissingElectricity")
    /\ Len(dsmr) = 1 /\ closed[1].info
    /\ recv.elec # {} /\ ~recv.info

\* C3: an end marker dispatched when no electricity line was dispatched since
\* the last boundary line makes parse return MissingElectricity, and the
\* output list is left as it was.
C3_EndNeedsElectricity ==
    [][\A l \in EndMarkers :
          (TelegramBoundary(l) /\ recv.elec = {})
              => (pc' = "done" /\ result' = Err("MissingElectricity") /\ dsmr' = dsmr)]_vars

\* an end marker failed on a telegram that had an information-type line and a
\* date line but no electricity line
C3_Witness ==
    /\ result = Err("MissingElectricity")
    /\ ends >= 1 /\ recv = EmptyCensus
    /\ closed[ends].elec = {} /\ closed[ends].info /\ closed[ends].date # <<>>
    /\ Len(dsmr) = ends - 1

\* C4 as claimed: an end marker dispatched when no date line was dispatched
\* since the last boundary line makes parse return NoDate.
C4_Original ==
    [][\A l \in EndMarkers :
          (TelegramBoundary(l) /\ recv.date = <<>>)
              => (pc' = "done" /\ result' = Err("NoDate"))]_vars

\* C4, amended: an end marker dispatched when an electricity line but no date
\* line was dispatched since the last boundary line makes parse return NoDate,
\* and the output list is left as it was.
C4_EndNeedsDate ==
    [][\A l \in EndMarkers :
          (TelegramBoundary(l) /\ recv.date = <<>> /\ recv.elec # {})
              => (pc' = "done" /\ result' = Err("NoDate") /\ dsmr' = dsmr)]_vars

\* an end marker failed on a telegram that had an electricity line and no
\* date line
C4_Witness ==
    /\ result = Err("NoDate")
    /\ ends >= 1 /\ recv = EmptyCensus
    /\ closed[ends].elec # {} /\ closed[ends].date = <<>>

\* C5: an information-type line makes parse return DuplicateFieldId when
\* another one was dispatched since the last boundary line, and is accepted
\* when none was, whatever earlier telegrams held.
C5_InfoTypeOncePerTelegram ==
    [][\A l \in {LInfo} :
          InformationType(l) =>
              IF recv.info
              THEN pc' = "done" /\ result' = Err("DuplicateFieldId")
              ELSE pc' = "loop" /\ result' = result /\ seen_info_type']_vars

\* after a first telegram with an information-type line, the second
\* telegram's first information-type line was accepted and its second failed
C5_Witness ==
    /\ result = Err("DuplicateFieldId")
    /\ Len(dsmr) = 1 /\ closed[1].info
    /\ recv.info /\ seen_info_type

\* C6 as claimed: every boundary line of a child telegram, start or end,
\* makes parse return ChildTelegramNotSupported.
C6_Original ==
    [][\A l \in {LChildStart, LChildEnd} :
          TelegramBoundary(l)
              => (pc' = "done" /\ result' = Err("ChildTelegramNotSupported"))]_vars

\* the ids of a sequence ascend (equal neighbours allowed)
Ascending(ids) == \A i, j \in 1..Len(ids) : i < j => ids[i] <= ids[j]

\* C7: in every telegram parse returns the event-log ids ascend, in whatever
\* order the sub-field lines came.
C7_EventLogAscending ==
    \A k \in 1..Len(Returned) : Ascending(Returned[k].event_log.ids)

\* a telegram whose sub-fields of id 2 came before those of id 1 was returned
\* with the ids in order
C7_Witness ==
    /\ Len(Returned) >= 1
    /\ closed[1].unsorted
    /\ Returned[1].event_log.ids = <<1, 2>>

\* the elements of a sequence, with multiplicity
SeqBag(s) ==
    [x \in {s[i] : i \in 1..Len(s)} |-> Cardinality({i \in 1..Len(s) : s[i] = x})]

\* what the event-log lines of kind k in ev decode to under D, with multiplicity
DecodedBag(ev, k, D(_)) ==
    LET ls == {l \in BagToSet(ev) : EvKind(l) = k}
    IN [x \in {D(l) : l \in ls} |->
           BagCardinality([l \in {e \in ls : D(e) = x} |-> CopiesIn(l, ev)])]

SeverityPair(l) == <<EventId(l), SeverityOf(l)>>
MessagePair(l)  == <<EventId(l), EventMessage(l)>>
DatePair(l)     == <<EventId(l), EventTimestamp(l)>>

\* the four sequences of the event log have one length, and its entries pair
\* each id with exactly the severities, messages and dates that came under
\* that id in the lines ev
PairedById(log, ev) ==
    LET n == Len(log.ids)
    IN /\ Len(log.severities) = n /\ Len(log.dates) = n /\ Len(log.messages) = n
       /\ SeqBag([i \in 1..n |-> <<log.ids[i], log.severities[i]>>])
              = DecodedBag(ev, "1", SeverityPair)
       /\ SeqBag([i \in 1..n |-> <<log.ids[i], log.messages[i]>>])
              = DecodedBag(ev, "2", MessagePair)
       /\ SeqBag([i \in 1..n |-> <<log.ids[i], log.dates[i]>>])
              = DecodedBag(ev, "3", DatePair)

\* C8: an end marker appends a telegram only when the sub-fields dispatched
\* since the last boundary line match one-to-one by id, and then the event log
\* pairs every sub-field once, under its own id; when they do not match, parse
\* fails at the end marker and appends nothing.
C8_EventLogCorrelated ==
    [][\A l \in EndMarkers :
          TelegramBoundary(l) =>
              /\ dsmr' # dsmr =>
                    /\ Matchable(recv.ev)
                    /\ PairedById(dsmr'[Len(dsmr')].event_log, recv.ev)
              /\ ~Matchable(recv.ev) =>
                    (pc' = "done" /\ result'.kind \in {"Err", "Panic"} /\ dsmr' = dsmr)]_vars

\* a telegram with the three sub-fields of two ids was returned with each
\* entry's severity and message under its own id
C8_Witness ==
    /\ Len(Returned) >= 1
    /\ BagCardinality(closed[1].ev) = 6
    /\ Returned[1].event_log.ids = <<1, 2>>
    /\ Returned[1].event_log.severities = <<"High", "Low">>
    /\ Returned[1].event_log.messages = <<<<"4", "e">>, <<"4", "1", "4", "2">>>>

\* C9 as claimed: the assertions of the correlation never fail on lines that
\* each pass the checks of their own handler.  (A line that fails its handler
\* ends the parse there, so the end marker is reached only behind lines that
\* passed.)
C9_Original ==
    ~(result.kind = "Panic" /\ result.error = "assertion failed")

\* the number of the month in the calendar
CalendarMonth(name) ==
    CASE name = Jan -> 1 [] name = Feb -> 2 [] name = Mar -> 3 [] name = Apr -> 4
      [] name = May -> 5 [] name = Jun -> 6 [] name = Jul -> 7 [] name = Aug -> 8
      [] name = Sep -> 9 [] name = Oct -> 10 [] name = Nov -> 11 [] name = Dec -> 12

\* the timestamp of a date token with its month taken from the calendar
CalendarTimestamp(token, dts) ==
    LET f == DateFields(token)
    IN date_to_timestamp(2000 + f.yy, CalendarMonth(Slice(token, 3, 6)),
                         f.dd, f.hh, f.mm, f.ss, dts = "S")

\* C10 as claimed: the telegram timestamp and the event-log timestamps are
\* those of the calendar month the date line names.
C10_Original ==
    pc = "loop" =>
        /\ has_telegram_date =>
              telegram_date =
                  CalendarTimestamp(DateInner(recv.date),
                                    Byte(DateInner(recv.date), Len(DateInner(recv.date)) - 2))
        /\ \A i \in 1..Len(dates) :
              \E l \in BagToSet(recv.ev) :
                  /\ EvKind(l) = "3"
                  /\ dates[i] = <<EventId(l),
                                  CalendarTimestamp(EventDateToken(l),
                                      Byte(EventVal(l), Len(EventVal(l)) - 2))>>

\* C11 as claimed: whenever a line makes parsing fail, the pass stops at that
\* line and parse returns an error result, one that carries no telegram
\* whatever telegrams were completed before; once parse has failed no later
\* line is processed, so the outcome is that of the earliest failing line.
C11_Original ==
    [][/\ \A l \in LineVocab :
              (HistLine(l) /\ Dispatch(l) /\ result'.kind \in {"Err", "Panic"})
                  => /\ pc' = "done"
                     /\ result'.kind = "Err"
                     /\ result'.value = <<>>
                     /\ dsmr' = dsmr
       /\ pc = "done" => UNCHANGED vars]_vars

\* C12: parse returns UnknownTelegramVersion exactly when the header line is
\* not that of version v10, without dispatching any line; with the v10 header
\* the header line is consumed, not dispatched, and the loop starts on the
\* initial accumulators.
C12_Original ==
    [][\A h \in HeaderVocab : \A eol \in Terminators : \A follow \in FollowVocab :
          Parse(h, eol, follow)
              => IF h = HeaderV10
                 THEN pc' = "loop" /\ result' = NoResult /\ UNCHANGED accum
                 ELSE /\ pc' = "done"
                      /\ result' = Err("UnknownTelegramVersion")
                      /\ UNCHANGED accum]_vars

\* the text a wire message stands for: one character for each pair of hex
\* digits, with code point 16 * (first digit) + (second digit)
HexValue(c) ==
    CASE c = "1" -> 1 [] c = "2" -> 2 [] c = "4" -> 4 [] c = "e" -> 14

TextOf(m) ==
    [i \in 1..(Len(m) \div 2) |-> 16 * HexValue(m[2 * i - 1]) + HexValue(m[2 * i])]

\* C14: message decoding gives, for each returned telegram, one (severity,
\* text) pair for each event-log entry, in the order of the entries; the text
\* has one character for each pair of hex digits of the wire message, with
\* code point 16 * hex(first) + hex(second), so that "4142" decodes to "AB"
\* (code points 65, 66).
C14_MessagesDecoded ==
    (pc = "done" /\ result.kind = "Ok") =>
        LET out == get_event_log_message(Returned)
        IN /\ out.kind = "Ok"
           /\ Len(out.value) = Len(Returned)
           /\ \A k \in 1..Len(Returned) :
                 LET log == Returned[k].event_log
                 IN /\ Len(out.value[k]) = Len(log.ids)
                    /\ \A i \in 1..Len(log.ids) :
                          /\ out.value[k][i][1] = log.severities[i]
                          /\ out.value[k][i][2] = TextOf(log.messages[i])
                          /\ log.messages[i] = <<"4", "1", "4", "2">>
                                 => out.value[k][i][2] = <<65, 66>>

\* a telegram with two events was returned: the first High with message "4e",
\* the second Low with message "4142", decoded to "N" and "AB"
C14_Witness ==
    /\ pc = "done" /\ Len(Returned) = 1
    /\ get_event_log_message(Returned)
           = Ok(<< << <<"High", <<78>>>>, <<"Low", <<65, 66>>>> >> >>)

\* the lines that are skipped: the blank line and the lines of unknown tag
SkippedLines == {LBlank, LUnknown, LV10}

\* C15: a blank line, or a line whose first byte is none of the tags 1, 2, 3,
\* 4, 7, never makes parse fail and leaves the flags, the electricity buffer,
\* the telegram timestamp, the three event-log lists and the output list as
\* they were, whatever they hold.
C15_SkippedLinesChangeNothing ==
    [][\A l \in SkippedLines :
          (HistLine(l) /\ Dispatch(l))
              => /\ pc' = "loop" /\ result' = NoResult
                 /\ UNCHANGED <<seen_info_type, has_electricity, has_telegram_date>>
                 /\ UNCHANGED <<electricity, telegram_date>>
                 /\ UNCHANGED <<dates, messages, severities>>
                 /\ UNCHANGED dsmr]_vars

\* a skipped line was dispatched behind the information-type, electricity and
\* date lines of a telegram, with event-log sub-fields received, and the
\* flags, the buffer, the timestamp and the lists are still set
C15_Witness ==
    /\ pc = "loop" /\ recv.skipped
    /\ seen_info_type /\ has_electricity /\ has_telegram_date
    /\ electricity # ZeroElectricity /\ telegram_date # 0
    /\ severities # <<>> /\ messages # <<>> /\ dates # <<>>

\* the slot an electricity line addresses, and the value it carries in
\* thousandths
SlotOf(l) ==
    CASE l \in {LVolt1, LVolt1b} -> <<"voltage", 1>>
      [] l = LCur2 -> <<"current", 2>>
      [] l \in {LTotalIn, LTotalInB} -> <<"total_consumed", 0>>
      [] l = LTotalOut -> <<"total_produced", 0>>
      [] OTHER -> <<"none", 0>>

ValueOf(l) ==
    CASE l = LVolt1 -> Binary(<<1, 1, 1, 0, 0, 1, 1, 0, 1>>, -1)
      [] l = LVolt1b -> Binary(<<1, 1, 1, 0, 0, 1, 1, 1>>, 0)
      [] l = LCur2 -> Binary(<<1, 1>>, -1)
      [] l = LTotalIn -> Binary(<<1, 1, 0, 0, 1>>, -1)
      [] l = LTotalInB -> Binary(<<1, 1, 0, 1>>, 0)
      [] l = LTotalOut -> Tenth
      [] OTHER -> Zero

\* the eleven slots of the electricity record
Slots ==
    ({"voltage", "current", "power"} \X {1, 2, 3})
        \cup {<<"total_consumed", 0>>, <<"total_produced", 0>>}

SlotValue(e, s) ==
    CASE s[1] = "voltage" -> e.voltage[s[2]]
      [] s[1] = "current" -> e.current[s[2]]
      [] s[1] = "power" -> e.power[s[2]]
      [] s[1] = "total_consumed" -> e.total_consumed
      [] s[1] = "total_produced" -> e.total_produced

\* each slot of e holds the value of the line of ls that addresses it, and
\* 0.0 when no line of ls does (ls has one line for a slot at most)
HoldsLines(e, ls) ==
    /\ \A l \in ls : SlotValue(e, SlotOf(l)) = ValueOf(l)
    /\ \A s \in Slots \ {SlotOf(l) : l \in ls} : SlotValue(e, s) = Zero

\* telegram t is made of the lines with census c and of nothing else
FromOwnLines(t, c) ==
    /\ t.date = TelegramTimestamp(c.date)
    /\ HoldsLines(t.information, c.elec)
    /\ PairedById(t.event_log, c.ev)

\* C16: every boundary line that does not fail leaves the three flags false,
\* the electricity slots and the telegram timestamp zero and the three
\* event-log lists empty; so every telegram of the output list is made of the
\* lines dispatched between the boundary line before it and its own end
\* marker, and of nothing an earlier telegram held.  (HistLine(l), a conjunct of
\* every handler, names the line of the step.)
C16_BoundaryResets ==
    [][\A l \in BoundaryVocab :
          (pc' = "loop" /\ HistLine(l) /\ TelegramBoundary(l))
              => /\ ~seen_info_type' /\ ~has_electricity' /\ ~has_telegram_date'
                 /\ electricity' = ZeroElectricity /\ telegram_date' = 0
                 /\ dates' = <<>> /\ messages' = <<>> /\ severities' = <<>>
                 /\ Len(dsmr') = Len(closed')
                 /\ Len(dsmr') > Len(dsmr)
                        => FromOwnLines(dsmr'[Len(dsmr')], closed'[Len(dsmr')])]_vars

\* two telegrams were returned: the first with a voltage, a current and an
\* event, the second with a current only, another date and no event
C16_Witness ==
    /\ pc = "done" /\ Len(Returned) = 2
    /\ Returned[1].information.voltage[1] # Zero
    /\ Returned[1].information.current[2] # Zero
    /\ Len(Returned[1].event_log.ids) = 1
    /\ Returned[2].information.voltage[1] = Zero
    /\ Returned[2].information.current[2] # Zero
    /\ Returned[2].event_log.ids = <<>>
    /\ Returned[2].date # Returned[1].date

\* C17: as long as no line has failed, each slot of the electricity buffer
\* holds the value of the last line that addressed its quantity and phase
\* since the last boundary line, and 0.0 when none did: an accepted line sets
\* its own slot and no other, and a later line for a slot replaces the earlier
\* one, for the totals too, which are never summed.  Each telegram of the
\* output list holds the slots so described for the lines its end marker
\* closed.
C17_SlotsLastWriteWins ==
    /\ (pc = "loop" \/ result.kind = "Ok") => HoldsLines(electricity, recv.elec)
    /\ \A k \in 1..Len(dsmr) : HoldsLines(dsmr[k].information, closed[k].elec)

\* in a second telegram a total-consumed line came after the other one and
\* the buffer holds the later value, with the voltage of phase 1 written once
\* and the total produced never
C17_Witness ==
    /\ pc = "loop" /\ recv.over /\ Len(dsmr) = 1
    /\ recv.elec = {LTotalInB, LVolt1}
    /\ electricity.total_consumed = Binary(<<1, 1, 0, 1>>, 0)
    /\ electricity.voltage[1] = Binary(<<1, 1, 1, 0, 0, 1, 1, 0, 1>>, -1)
    /\ electricity.total_produced = Zero
    /\ dsmr[1].information.total_produced = Tenth

\* C18: every step of a parse leaves the output list as it was or appends one
\* telegram at its end, the telegrams before it unchanged; only the dispatch of
\* an end marker appends.  So a telegram once appended stays as it is through
\* every later line, the reset that follows its end marker included.
C18_OutputOnlyGrows ==
    [][/\ \/ dsmr' = dsmr
          \/ /\ Len(dsmr') = Len(dsmr) + 1
             /\ SubSeq(dsmr', 1, Len(dsmr)) = dsmr
       /\ dsmr' # dsmr
              => /\ ends' = ends + 1
                 /\ \E l \in EndMarkers : HistLine(l) /\ TelegramBoundary(l)]_vars

\* two different telegrams were appended and lines of a third telegram have
\* been processed since
C18_Witness ==
    /\ pc = "loop" /\ Len(dsmr) = 2 /\ dsmr[1] # dsmr[2]
    /\ Len(dsmr[1].event_log.ids) = 1
    /\ seen_info_type /\ has_electricity /\ has_telegram_date
    /\ electricity # dsmr[2].information

\* C19: no telegram parse returns has two event-log entries with the same id:
\* the ids of every returned event log are strictly ascending.
C19_Original ==
    \A k \in 1..Len(Returned) :
        \A i, j \in 1..Len(Returned[k].event_log.ids) :
            i < j => Returned[k].event_log.ids[i] < Returned[k].event_log.ids[j]

\* the accumulators are those of a new telegram
Reset(flags, buffer, stamp, lists) ==
    /\ flags = <<FALSE, FALSE, FALSE>>
    /\ buffer = ZeroElectricity /\ stamp = 0
    /\ lists = <<<<>>, <<>>, <<>>>>

\* C20 as stated: a telegram is appended only by an end marker that closes a
\* telegram a start marker opened; a start marker dispatched while a telegram
\* is open discards the accumulated fields without error and appends nothing;
\* an end marker dispatched while no telegram is open appends nothing.
C20_Original ==
    [][/\ dsmr' # dsmr
              => /\ open
                 /\ \E l \in EndMarkers : HistLine(l) /\ TelegramBoundary(l)
       /\ (open /\ HistLine(LStart) /\ TelegramBoundary(LStart))
              => /\ pc' = "loop" /\ dsmr' = dsmr
                 /\ Reset(<<seen_info_type', has_electricity', has_telegram_date'>>,
                          electricity', telegram_date',
                          <<dates', messages', severities'>>)
       /\ \A l \in EndMarkers :
              (~open /\ HistLine(l) /\ TelegramBoundary(l)) => dsmr' = dsmr]_vars

\* an end marker has what it needs to append a telegram: electricity and date
\* lines were dispatched since the last boundary line, and the event-log
\* sub-fields dispatched since then match one-to-one by id
Appendable(c) == c.elec # {} /\ c.date # <<>> /\ Matchable(c.ev)

\* C20: a telegram is appended only by an end marker; a start marker, whether
\* a telegram is open or not, discards the accumulated fields without error
\* and appends nothing; an end marker dispatched while no telegram is open
\* (no start marker since the beginning of the input or the last end marker)
\* appends a telegram all the same, made of the lines dispatched since then,
\* when electricity and date lines are among them and the event-log
\* sub-fields among them match one-to-one by id; when not, parse fails at
\* that end marker and nothing is appended.
C20_EndMarkerAloneAppends ==
    [][/\ dsmr' # dsmr
              => \E l \in EndMarkers : HistLine(l) /\ TelegramBoundary(l)
       /\ (HistLine(LStart) /\ TelegramBoundary(LStart))
              => /\ pc' = "loop" /\ result' = NoResult /\ dsmr' = dsmr
                 /\ Reset(<<seen_info_type', has_electricity', has_telegram_date'>>,
                          electricity', telegram_date',
                          <<dates', messages', severities'>>)
       /\ \A l \in EndMarkers :
              (~open /\ HistLine(l) /\ TelegramBoundary(l))
                  => IF Appendable(recv)
                     THEN /\ pc' = "loop"
                          /\ Len(dsmr') = Len(dsmr) + 1
                          /\ FromOwnLines(dsmr'[Len(dsmr')], recv)
                     ELSE /\ pc' = "done"
                          /\ result'.kind \in {"Err", "Panic"}
                          /\ dsmr' = dsmr]_vars

\* parse returned a telegram with an event whose end marker, the last line of
\* the input, no start marker preceded
C20_Witness ==
    /\ pc = "done" /\ orphan
    /\ Len(Returned) = 1 /\ ends = 1
    /\ Len(Returned[1].event_log.ids) = 1

=============================================================================
